---- MODULE Spec2Model ----
(***************************************************************************)
(* Model of the medical-triage chatbot backend (src/main.py).              *)
(*                                                                         *)
(* The state is the process-wide store ficha_de_atendimento_db, the global *)
(* gemini_model, the position of the lifespan handler, and - so that the   *)
(* properties can speak about what a call was given and what it returned - *)
(* the last request, the last HTTP response and the calls the last request *)
(* made to the external model (what each call was sent and what it raised  *)
(* or returned).                                                           *)
(*                                                                         *)
(* Every endpoint is an async def without a single await: it runs to       *)
(* completion on the event loop, so each endpoint is one atomic action.    *)
(* SpecLoop shows the two endpoints that call the external model in two    *)
(* steps, before and after generate_content: blocked holds the handlers    *)
(* that are inside that call.  SpecNormalizer applies the fence stripping  *)
(* of the two endpoints to raw texts: normalizer holds text and results.   *)
(*                                                                         *)
(* Representation of Python values:                                        *)
(*   str            a TLA+ string                                          *)
(*   None           the reserved string None (no JSON document of the      *)
(*                  model carries that text, so it never clashes)          *)
(*   raw model text a sequence of characters; a whole JSON document inside *)
(*                  it is one opaque character whose parse is JsonDocs     *)
(***************************************************************************)
EXTENDS Naturals, Sequences, FiniteSets, TLC

VARIABLES lifespan_pc, gemini_model, ficha_de_atendimento_db,
          request, response, gemini_calls, blocked, normalizer

vars == <<lifespan_pc, gemini_model, ficha_de_atendimento_db,
          request, response, gemini_calls, blocked, normalizer>>

(***************************************************************************)
(* Bounds of the model.                                                    *)
(***************************************************************************)
MaxSessions == 2
MaxHistory == 3
MaxChunks == 5

(***************************************************************************)
(* Python values.                                                          *)
(***************************************************************************)
None == "<None>"

EmptyDict == [k \in {} |-> ""]

(***************************************************************************)
(* Inputs.                                                                 *)
(***************************************************************************)
\* identifiers uuid4 can produce
SessionIds == 1..MaxSessions

\* session_id values a client can send: every uuid, and one (0) never issued
RequestIds == 0..MaxSessions

DadosPessoaisIniciais ==
    { [nome_completo |-> "Ana", endereco |-> "Rua X", idade |-> 30] }

UserMessages == {"dor de cabeca forte", "ha dois dias"}

Queixas == {"febre"}

(***************************************************************************)
(* JSON values, as json.loads returns them.                                *)
(***************************************************************************)
JStr(s) == [type |-> "str", val |-> s]
JNull == [type |-> "null"]
JList == [type |-> "list"]
JObject(m) == [type |-> "object", members |-> m]

\* The JSON documents the external model may answer with, by their text.
JsonDocs ==
    [ ongoing |->
        JObject([status |-> JStr("ongoing"), bot_message |-> JStr("Ha quanto tempo?")]),
      final_neuro |->
        JObject([status |-> JStr("final"), bot_message |-> JStr("Obrigado"),
                 especialidade_medica |-> JStr("Neurologia"),
                 orientacao_ao_medico |-> JStr("Avaliar cefaleia")]),
      final_cardio |->
        JObject([status |-> JStr("final"), bot_message |-> JStr("Obrigado"),
                 especialidade_medica |-> JStr("Cardiologia"),
                 orientacao_ao_medico |-> JStr("Avaliar dor toracica")]),
      final_missing |->
        JObject([status |-> JStr("final"), bot_message |-> JStr("Obrigado")]),
      final_null |->
        JObject([status |-> JStr("final"), bot_message |-> JStr("Obrigado"),
                 especialidade_medica |-> JStr("Neurologia"),
                 orientacao_ao_medico |-> JNull]),
      final_empty |->
        JObject([status |-> JStr("final"), bot_message |-> JStr("Obrigado"),
                 especialidade_medica |-> JStr(""),
                 orientacao_ao_medico |-> JStr("")]),
      final_list |->
        JObject([status |-> JStr("final"), bot_message |-> JStr("Obrigado"),
                 especialidade_medica |-> JList,
                 orientacao_ao_medico |-> JStr("Avaliar cefaleia")]),
      ongoing_extra |->
        JObject([status |-> JStr("ongoing"), bot_message |-> JStr("Ha quanto tempo?"),
                 especialidade_medica |-> JStr("Cardiologia")]),
      bad_status |->
        JObject([status |-> JStr("done"), bot_message |-> JStr("Obrigado")]),
      no_message |->
        JObject([status |-> JStr("ongoing")]),
      single_neuro |->
        JObject([especialidade_medica |-> JStr("Neurologia"),
                 orientacao_ao_medico |-> JStr("Avaliar cefaleia")]),
      single_missing |->
        JObject([especialidade_medica |-> JStr("Neurologia")]),
      list |-> JList ]

(***************************************************************************)
(* Raw model text: str.strip, str.startswith, str.endswith and slicing.    *)
(***************************************************************************)
Whitespace == {" ", "\n", "\t"}

RECURSIVE lstrip(_)
lstrip(s) ==
    IF s # <<>> /\ Head(s) \in Whitespace THEN lstrip(Tail(s)) ELSE s

RECURSIVE rstrip(_)
rstrip(s) ==
    IF s # <<>> /\ s[Len(s)] \in Whitespace
        THEN rstrip(SubSeq(s, 1, Len(s) - 1))
        ELSE s

strip(s) == rstrip(lstrip(s))

startswith(s, prefix) ==
    Len(s) >= Len(prefix) /\ SubSeq(s, 1, Len(prefix)) = prefix

endswith(s, suffix) ==
    Len(s) >= Len(suffix) /\ SubSeq(s, Len(s) - Len(suffix) + 1, Len(s)) = suffix

\* s[n:]
SliceFrom(s, n) == SubSeq(s, n + 1, Len(s))

\* s[:-n], n > 0
SliceUntil(s, n) == IF Len(s) > n THEN SubSeq(s, 1, Len(s) - n) ELSE <<>>

\* the backtick character (the lexer of TLA+ admits none inside a string)
Backtick == "BACKTICK"

OpenFence == <<Backtick, Backtick, Backtick, "j", "s", "o", "n">>
CloseFence == <<Backtick, Backtick, Backtick>>

\* main.py 194-199, the single-shot path: the candidate JSON text
json_string_processar_queixa(gemini_output_text) ==
    LET stripped == strip(gemini_output_text)
    IN  IF startswith(stripped, OpenFence) /\ endswith(stripped, CloseFence)
            THEN strip(SliceUntil(strip(SliceFrom(stripped, Len(OpenFence))),
                                  Len(CloseFence)))
            ELSE stripped

\* the closing fence not asked for
json_string_close_unchecked(gemini_output_text) ==
    LET stripped == strip(gemini_output_text)
    IN  IF startswith(stripped, OpenFence)
            THEN strip(SliceUntil(strip(SliceFrom(stripped, Len(OpenFence))),
                                  Len(CloseFence)))
            ELSE stripped

\* main.py 303-308, the conversational path: the candidate JSON text
json_string(gemini_output_text) ==
    LET stripped == strip(gemini_output_text)
    IN  IF startswith(stripped, OpenFence) /\ endswith(stripped, CloseFence)
            THEN strip(SliceUntil(strip(SliceFrom(stripped, Len(OpenFence))),
                                  Len(CloseFence)))
            ELSE stripped

\* json.loads: surrounding whitespace is allowed, anything else around or
\* instead of a single document is a JSONDecodeError
json_loads(s) ==
    LET document == strip(s)
    IN  IF Len(document) = 1 /\ document[1] \in DOMAIN JsonDocs
            THEN [ok |-> TRUE, value |-> JsonDocs[document[1]]]
            ELSE [ok |-> FALSE]

(***************************************************************************)
(* What generate_content(...).text can do: raise, or return some text.     *)
(***************************************************************************)
Bare(d) == <<d>>
Padded(d) == <<" ", d, "\n">>
Fenced(d) == OpenFence \o <<"\n", d, "\n">> \o CloseFence
FencedPadded(d) == <<"\n">> \o OpenFence \o <<d>> \o CloseFence \o <<" ">>
Unclosed(d) == OpenFence \o <<"\n", d>>
Untagged(d) == CloseFence \o <<"\n", d, "\n">> \o CloseFence

\* every document as it is, one document in every wrapping, and two texts
\* that are no JSON at all
GeminiTexts ==
    { Bare(d) : d \in DOMAIN JsonDocs }
    \cup { Padded("final_neuro"), Fenced("final_neuro"), FencedPadded("final_neuro"),
           Unclosed("final_neuro"), Untagged("final_neuro") }
    \cup { <<>>, <<"x">> }

GeminiOutcomes ==
    { [raises |-> TRUE] } \cup { [raises |-> FALSE, text |-> t] : t \in GeminiTexts }

(***************************************************************************)
(* The pydantic models the parsed output is validated against.             *)
(***************************************************************************)
\* a required str field
ValidStr(m, k) == k \in DOMAIN m /\ m[k].type = "str"

\* a field declared Union[str, None] = None
ValidOptionalStr(m, k) == k \in DOMAIN m => m[k].type \in {"str", "null"}

OptionalStrValue(m, k) ==
    IF k \in DOMAIN m /\ m[k].type = "str" THEN m[k].val ELSE None

\* ConversationalGeminiResponse(**parsed); extra keys are ignored
ConversationalGeminiResponse(parsed) ==
    IF /\ parsed.type = "object"
       /\ ValidStr(parsed.members, "status")
       /\ parsed.members.status.val \in {"ongoing", "final"}
       /\ ValidStr(parsed.members, "bot_message")
       /\ ValidOptionalStr(parsed.members, "especialidade_medica")
       /\ ValidOptionalStr(parsed.members, "orientacao_ao_medico")
        THEN [ok |-> TRUE,
              status |-> parsed.members.status.val,
              bot_message |-> parsed.members.bot_message.val,
              especialidade_medica |->
                  OptionalStrValue(parsed.members, "especialidade_medica"),
              orientacao_ao_medico |->
                  OptionalStrValue(parsed.members, "orientacao_ao_medico")]
        ELSE [ok |-> FALSE]

\* GeminiResponse(**parsed); extra keys are ignored
GeminiResponse(parsed) ==
    IF /\ parsed.type = "object"
       /\ ValidStr(parsed.members, "especialidade_medica")
       /\ ValidStr(parsed.members, "orientacao_ao_medico")
        THEN [ok |-> TRUE,
              especialidade_medica |-> parsed.members.especialidade_medica.val,
              orientacao_ao_medico |-> parsed.members.orientacao_ao_medico.val]
        ELSE [ok |-> FALSE]

(***************************************************************************)
(* The store and its records.                                              *)
(***************************************************************************)
\* SetItem if every key of the dict referred to one shared record
SetItemShared(d, k, v) == [x \in DOMAIN d \cup {k} |-> v]

\* d[k] = v on a dict
SetItem(d, k, v) == [x \in DOMAIN d \cup {k} |-> IF x = k THEN v ELSE d[x]]

\* uuid4 if it could return an identifier again
uuid4_repeating == SessionIds

\* uuid.uuid4(): an identifier no earlier call returned; the store never
\* drops a key, so these are the identifiers that are not keys of it
uuid4 == SessionIds \ DOMAIN ficha_de_atendimento_db

\* the record of main.py 98-109
NovaFicha(session_id, dados) ==
    [session_id |-> session_id,
     nome_completo |-> dados.nome_completo,
     endereco |-> dados.endereco,
     idade |-> dados.idade,
     dados_fisiologicos |-> EmptyDict,
     queixa_paciente |-> "",
     especialidade_medica |-> "",
     orientacao_ao_medico |-> "",
     chat_history |-> <<>>,
     conversation_status |-> "ongoing"]

\* readings that differ from one call to the next
dados_fisiologicos_variaveis ==
    [altura_cm |-> 175,
     peso_kg |-> 70,
     pressao_arterial_sistolica |-> 120,
     pressao_arterial_diastolica |-> 80,
     oxigenacao_sangue_percentual |-> 98,
     nivel_estresse |->
        IF request.endpoint = "obter_dados_smartwatch" THEN "Alto" ELSE "Baixo"]

dados_fisiologicos_artificiais ==
    [altura_cm |-> 175,
     peso_kg |-> 70,
     pressao_arterial_sistolica |-> 120,
     pressao_arterial_diastolica |-> 80,
     oxigenacao_sangue_percentual |-> 98,
     nivel_estresse |-> "Baixo"]

\* every message kept under the role of the user
ChatMessage_as_user(role, text) == [role |-> "user", parts |-> <<[text |-> text]>>]

ChatMessage(role, text) == [role |-> role, parts |-> <<[text |-> text]>>]

\* the new item put in front of the list
append_in_front(list, item) == <<item>> \o list

\* list.append(item), main.py 259 and 315
append(list, item) == Append(list, item)

\* join with a blank as the separator
RECURSIVE join_blank(_)
join_blank(texts) ==
    IF texts = <<>> THEN ""
    ELSE IF Len(texts) = 1 THEN texts[1]
    ELSE texts[1] \o " " \o join_blank(Tail(texts))

\* "\n".join(texts)
RECURSIVE join(_)
join(texts) ==
    IF texts = <<>> THEN ""
    ELSE IF Len(texts) = 1 THEN texts[1]
    ELSE texts[1] \o "\n" \o join(Tail(texts))

\* [msg["parts"][0]["text"] for msg in chat_history if msg["role"] == "user"]
RECURSIVE UserTexts(_)
UserTexts(chat_history) ==
    IF chat_history = <<>> THEN <<>>
    ELSE IF Head(chat_history).role = "user"
        THEN <<Head(chat_history).parts[1].text>> \o UserTexts(Tail(chat_history))
        ELSE UserTexts(Tail(chat_history))

HTTPException(status_code, detail) == [status_code |-> status_code, detail |-> detail]

\* an unknown session reported as a server error
NotFoundAsServerError == HTTPException(500, "Sessao nao encontrada.")

NotFound == HTTPException(404, "Sessao nao encontrada.")
ServiceUnavailable == HTTPException(503, "Servico Gemini nao inicializado.")
InvalidJson == HTTPException(500, "Erro ao processar a resposta do Gemini. Formato JSON invalido")
GeminiError == HTTPException(500, "Erro ao interagir com a API do Google Gemini")

SessaoFinalizada == "A triagem para esta sessao ja foi finalizada."

(***************************************************************************)
(* Initial state: the process has been started, lifespan has not run.      *)
(***************************************************************************)
Init ==
    /\ lifespan_pc = "start"
    /\ gemini_model = None
    /\ ficha_de_atendimento_db = [k \in {} |-> 0]
    /\ request = [endpoint |-> "none"]
    /\ response = [status_code |-> 0]
    /\ gemini_calls = <<>>
    /\ blocked = {}
    /\ normalizer = [pc |-> "idle"]

(***************************************************************************)
(* lifespan (main.py 19-41): the requests are served after the yield.      *)
(***************************************************************************)
lifespan(api_key_set, configured) ==
    /\ lifespan_pc = "start"
    /\ IF api_key_set /\ configured
        THEN /\ gemini_model' = "models/gemini-2.5-pro"
             /\ lifespan_pc' = "yield"
        ELSE /\ gemini_model' = gemini_model
             /\ lifespan_pc' = "raised"
    /\ UNCHANGED <<ficha_de_atendimento_db, request, response, gemini_calls,
                   blocked, normalizer>>

(***************************************************************************)
(* POST /api/v1/iniciar_atendimento (main.py 91-111)                       *)
(***************************************************************************)
iniciar_atendimento(dados) ==
    /\ lifespan_pc = "yield"
    /\ \E session_id \in uuid4 :
        /\ ficha_de_atendimento_db' =
               SetItem(ficha_de_atendimento_db, session_id, NovaFicha(session_id, dados))
        /\ request' = [endpoint |-> "iniciar_atendimento", dados |-> dados]
        /\ response' = [status_code |-> 200,
                        message |-> "Atendimento iniciado com sucesso.",
                        session_id |-> session_id]
    /\ gemini_calls' = <<>>
    /\ UNCHANGED <<lifespan_pc, gemini_model, blocked, normalizer>>

(***************************************************************************)
(* GET /api/v1/obter_dados_smartwatch/{session_id} (main.py 113-140)       *)
(***************************************************************************)
obter_dados_smartwatch(session_id) ==
    /\ lifespan_pc = "yield"
    /\ request' = [endpoint |-> "obter_dados_smartwatch", session_id |-> session_id]
    /\ gemini_calls' = <<>>
    /\ IF session_id \notin DOMAIN ficha_de_atendimento_db
        THEN /\ response' = NotFound
             /\ UNCHANGED ficha_de_atendimento_db
        ELSE /\ ficha_de_atendimento_db' =
                    [ficha_de_atendimento_db EXCEPT
                        ![session_id].dados_fisiologicos = dados_fisiologicos_artificiais]
             /\ response' = [status_code |-> 200,
                             message |-> "Dados do smartwatch obtidos com sucesso.",
                             dados_fisiologicos |-> dados_fisiologicos_artificiais]
    /\ UNCHANGED <<lifespan_pc, gemini_model, blocked, normalizer>>

(***************************************************************************)
(* What the two endpoints send to the external model (the texts are        *)
(* written without their accents, the instructions to the model cut short).*)
(***************************************************************************)
Digits == <<"0", "1", "2", "3", "4", "5", "6", "7", "8", "9">>

\* str(n) inside an f-string, n a natural number
RECURSIVE str(_)
str(n) == IF n < 10 THEN Digits[n + 1] ELSE str(n \div 10) \o Digits[(n % 10) + 1]

\* f"{d.get(key)}" for a reading that is a number, and for one that is a str
format_number(d, key) == IF key \in DOMAIN d THEN str(d[key]) ELSE "None"
format_str(d, key) == IF key \in DOMAIN d THEN d[key] ELSE "None"

\* main.py 161-167 and 262-268
dados_para_gemini(ficha) ==
    "Nome: " \o ficha.nome_completo \o ", Idade: " \o str(ficha.idade)
    \o ", Endereco: " \o ficha.endereco \o ". "
    \o "Dados Fisiologicos: Altura: "
    \o format_number(ficha.dados_fisiologicos, "altura_cm") \o "cm, "
    \o "Peso: " \o format_number(ficha.dados_fisiologicos, "peso_kg") \o "kg, "
    \o "Pressao Arterial: "
    \o format_number(ficha.dados_fisiologicos, "pressao_arterial_sistolica") \o "/"
    \o format_number(ficha.dados_fisiologicos, "pressao_arterial_diastolica") \o " mmHg, "
    \o "Oxigenacao: "
    \o format_number(ficha.dados_fisiologicos, "oxigenacao_sangue_percentual") \o "%, "
    \o "Nivel de Estresse: " \o format_str(ficha.dados_fisiologicos, "nivel_estresse")
    \o "."

\* main.py 171-180; of the fixed sentences only the beginnings are kept
gemini_prompt(ficha) ==
    "Voce e um atendente de triagem medica [...] "
    \o "Voce ja recebeu os seguintes dados pessoais e fisiologicos: "
    \o dados_para_gemini(ficha) \o ". "
    \o "Agora, o paciente ira descrever sua queixa principal. [...] "
    \o "Apenas o JSON deve ser retornado."

\* main.py 183
full_prompt(ficha, queixa_paciente) ==
    gemini_prompt(ficha) \o "\nQueixa do paciente: " \o queixa_paciente

\* main.py 271-283; of the fixed sentences only the beginnings are kept
gemini_system_prompt(ficha) ==
    "Voce e um atendente de triagem medica [...] "
    \o "Os dados pessoais e fisiologicos iniciais do paciente sao: "
    \o dados_para_gemini(ficha) \o ". "
    \o "Voce deve conduzir a conversa fazendo perguntas relevantes [...] "
    \o "Apenas o JSON deve ser retornado."

\* the system prompt put after the conversation
conversation_for_gemini_prompt_last(ficha) ==
    ficha.chat_history \o <<ChatMessage("model", gemini_system_prompt(ficha))>>

\* main.py 288-290, on the record whose chat_history ends with the user message
conversation_for_gemini(ficha) ==
    <<ChatMessage("model", gemini_system_prompt(ficha))>> \o ficha.chat_history

\* a call that raised made once more
generate_content_retrying(contents, outcome) ==
    IF outcome.raises
        THEN <<[contents |-> contents, raises |-> TRUE],
               [contents |-> contents, raises |-> TRUE]>>
        ELSE <<[contents |-> contents, raises |-> FALSE, text |-> outcome.text]>>

\* main.py 187 and 296: the calls a handler makes to the external model, each
\* with what it was sent and what it did; there is one call and no loop
generate_content(contents, outcome) ==
    IF outcome.raises
        THEN <<[contents |-> contents, raises |-> TRUE]>>
        ELSE <<[contents |-> contents, raises |-> FALSE, text |-> outcome.text]>>

(***************************************************************************)
(* POST /api/v0/processar_queixa (main.py 142-228)                         *)
(* gemini: what generate_content may do when it is called.                 *)
(***************************************************************************)
\* the try block of main.py 186-228, on the record whose complaint is set
ProcessarQueixaTry(ficha, outcome) ==
    LET gemini_parsed_response ==
            json_loads(json_string_processar_queixa(outcome.text))
        gemini_response_model == GeminiResponse(gemini_parsed_response.value)
        completa ==
            [ficha EXCEPT
                !.especialidade_medica = gemini_response_model.especialidade_medica,
                !.orientacao_ao_medico = gemini_response_model.orientacao_ao_medico]
    IN  IF outcome.raises
            THEN [ficha |-> ficha, response |-> GeminiError]
        ELSE IF ~gemini_parsed_response.ok
            THEN [ficha |-> ficha, response |-> InvalidJson]
        ELSE IF ~gemini_response_model.ok
            THEN [ficha |-> ficha, response |-> GeminiError]
        ELSE [ficha |-> completa,
              response |-> [status_code |-> 200,
                            message |-> "Ficha de atendimento completa",
                            ficha_de_atendimento |-> completa]]

processar_queixa(queixa_data, gemini) ==
    /\ lifespan_pc = "yield"
    /\ request' = [endpoint |-> "processar_queixa",
                   session_id |-> queixa_data.session_id,
                   queixa |-> queixa_data.queixa]
    /\ IF gemini_model = None
        THEN /\ response' = ServiceUnavailable
             /\ gemini_calls' = <<>>
             /\ UNCHANGED ficha_de_atendimento_db
       ELSE IF queixa_data.session_id \notin DOMAIN ficha_de_atendimento_db
        THEN /\ response' = NotFound
             /\ gemini_calls' = <<>>
             /\ UNCHANGED ficha_de_atendimento_db
       ELSE
        \* ficha and the prompt are values before the call is made
        \E ficha \in { [ficha_de_atendimento_db[queixa_data.session_id] EXCEPT
                            !.queixa_paciente = queixa_data.queixa] } :
        \E contents \in { full_prompt(ficha, queixa_data.queixa) } :
        \E outcome \in gemini :
        \E result \in { ProcessarQueixaTry(ficha, outcome) } :
                /\ gemini_calls' = generate_content(contents, outcome)
                /\ ficha_de_atendimento_db' =
                       SetItem(ficha_de_atendimento_db, queixa_data.session_id,
                               result.ficha)
                /\ response' = result.response
    /\ UNCHANGED <<lifespan_pc, gemini_model, blocked, normalizer>>

(***************************************************************************)
(* POST /api/v1/chat_with_gemini (main.py 230-349)                         *)
(***************************************************************************)
\* the closed-session check left out
ConversaNuncaFinalizada(ficha) == FALSE

\* main.py 250: the conversation of this record is over
ConversaFinalizada(ficha) == ficha.conversation_status = "final"

\* the try block of main.py 293-349, on the record whose chat_history
\* already ends with the user message
ChatTry(ficha, outcome) ==
    LET gemini_parsed_response == json_loads(json_string(outcome.text))
        gemini_response_model ==
            ConversationalGeminiResponse(gemini_parsed_response.value)
        respondida ==
            [ficha EXCEPT
                !.chat_history =
                    append(@, ChatMessage("model", gemini_response_model.bot_message))]
        finalizada ==
            [respondida EXCEPT
                !.especialidade_medica = gemini_response_model.especialidade_medica,
                !.orientacao_ao_medico = gemini_response_model.orientacao_ao_medico,
                !.queixa_paciente = join(UserTexts(respondida.chat_history)),
                !.conversation_status = "final"]
    IN  IF outcome.raises
            THEN [ficha |-> ficha, response |-> GeminiError]
        ELSE IF ~gemini_parsed_response.ok
            THEN [ficha |-> ficha, response |-> InvalidJson]
        ELSE IF ~gemini_response_model.ok
            THEN [ficha |-> ficha, response |-> GeminiError]
        ELSE IF gemini_response_model.status = "final"
            THEN [ficha |-> finalizada,
                  response |-> [status_code |-> 200,
                                status |-> "final",
                                bot_message |-> gemini_response_model.bot_message,
                                ficha_de_atendimento |-> finalizada]]
        ELSE [ficha |-> respondida,
              response |-> [status_code |-> 200,
                            status |-> "ongoing",
                            bot_message |-> gemini_response_model.bot_message]]

chat_with_gemini(chat_input, gemini) ==
    /\ lifespan_pc = "yield"
    /\ request' = [endpoint |-> "chat_with_gemini",
                   session_id |-> chat_input.session_id,
                   user_message |-> chat_input.user_message]
    /\ IF gemini_model = None
        THEN /\ response' = ServiceUnavailable
             /\ gemini_calls' = <<>>
             /\ UNCHANGED ficha_de_atendimento_db
       ELSE IF chat_input.session_id \notin DOMAIN ficha_de_atendimento_db
        THEN /\ response' = NotFound
             /\ gemini_calls' = <<>>
             /\ UNCHANGED ficha_de_atendimento_db
       ELSE IF ConversaFinalizada(ficha_de_atendimento_db[chat_input.session_id])
        THEN /\ response' =
                    [status_code |-> 200,
                     status |-> "final",
                     bot_message |-> SessaoFinalizada,
                     especialidade_medica |->
                        ficha_de_atendimento_db[chat_input.session_id].especialidade_medica,
                     orientacao_ao_medico |->
                        ficha_de_atendimento_db[chat_input.session_id].orientacao_ao_medico]
             /\ gemini_calls' = <<>>
             /\ UNCHANGED ficha_de_atendimento_db
       ELSE
        \* ficha and the contents are values before the call is made
        \E ficha \in { [ficha_de_atendimento_db[chat_input.session_id] EXCEPT
                            !.chat_history =
                                append(@, ChatMessage("user", chat_input.user_message))] } :
        \E contents \in { conversation_for_gemini(ficha) } :
        \E outcome \in gemini :
        \E result \in { ChatTry(ficha, outcome) } :
                /\ Len(result.ficha.chat_history) <= MaxHistory
                /\ gemini_calls' = generate_content(contents, outcome)
                /\ ficha_de_atendimento_db' =
                       SetItem(ficha_de_atendimento_db, chat_input.session_id,
                               result.ficha)
                /\ response' = result.response
    /\ UNCHANGED <<lifespan_pc, gemini_model, blocked, normalizer>>

(***************************************************************************)
(* GET /api/v1/ficha_completa/{session_id} (main.py 352-360)               *)
(***************************************************************************)
obter_ficha_completa(session_id) ==
    /\ lifespan_pc = "yield"
    /\ request' = [endpoint |-> "ficha_completa", session_id |-> session_id]
    /\ gemini_calls' = <<>>
    /\ response' =
        IF session_id \notin DOMAIN ficha_de_atendimento_db
            THEN NotFound
            ELSE [status_code |-> 200,
                  ficha_de_atendimento |-> ficha_de_atendimento_db[session_id]]
    /\ UNCHANGED <<lifespan_pc, gemini_model, ficha_de_atendimento_db,
                   blocked, normalizer>>

(***************************************************************************)
(* The specifications.                                                     *)
(***************************************************************************)
\* The requests of clients that send their messages from messages and their
\* complaints from queixas, with an external model that behaves as in gemini.
Requests(messages, queixas, gemini) ==
    \/ \E session_id \in RequestIds : obter_dados_smartwatch(session_id)
    \/ \E session_id \in RequestIds, queixa \in queixas :
            processar_queixa([session_id |-> session_id, queixa |-> queixa], gemini)
    \/ \E session_id \in RequestIds, user_message \in messages :
            chat_with_gemini([session_id |-> session_id, user_message |-> user_message],
                             gemini)
    \/ \E session_id \in RequestIds : obter_ficha_completa(session_id)

Startup ==
    \E api_key_set \in BOOLEAN, configured \in BOOLEAN : lifespan(api_key_set, configured)

\* The whole service for up to MaxSessions sessions; to keep the store of
\* several sessions small, one user message and one answer of each kind.
FewMessages == {"dor de cabeca forte"}

FewOutcomes ==
    { [raises |-> TRUE] }
    \cup { [raises |-> FALSE, text |-> t] :
            t \in { Bare("ongoing"), Fenced("final_neuro"), Bare("final_missing"),
                    <<"x">> } }

Next ==
    \/ Startup
    \/ \E dados \in DadosPessoaisIniciais : iniciar_atendimento(dados)
    \/ Requests(FewMessages, Queixas, FewOutcomes)

Spec == Init /\ [][Next]_vars

\* One session, with every message and every answer of the external model.
NextSession ==
    \/ Startup
    \/ \E dados \in DadosPessoaisIniciais :
            /\ DOMAIN ficha_de_atendimento_db = {}
            /\ iniciar_atendimento(dados)
    \/ Requests(UserMessages, Queixas, GeminiOutcomes)

SpecSession == Init /\ [][NextSession]_vars

(***************************************************************************)
(* The two endpoints that call the external model, in two steps: up to the *)
(* call of generate_content, and from its return.  Both are async def and  *)
(* generate_content is an ordinary blocking call, not awaited (main.py 187 *)
(* and 296): the event loop runs nothing else until the handler returns.   *)
(***************************************************************************)
\* the event loop can start a handler
EventLoopFree == blocked = {}

\* main.py 230-296
chat_call(chat_input) ==
    /\ lifespan_pc = "yield"
    /\ EventLoopFree
    /\ request' = [endpoint |-> "chat_with_gemini",
                   session_id |-> chat_input.session_id,
                   user_message |-> chat_input.user_message]
    /\ gemini_calls' = <<>>
    /\ IF gemini_model = None
        THEN /\ response' = ServiceUnavailable
             /\ UNCHANGED <<ficha_de_atendimento_db, blocked>>
       ELSE IF chat_input.session_id \notin DOMAIN ficha_de_atendimento_db
        THEN /\ response' = NotFound
             /\ UNCHANGED <<ficha_de_atendimento_db, blocked>>
       ELSE IF ConversaFinalizada(ficha_de_atendimento_db[chat_input.session_id])
        THEN /\ response' =
                    [status_code |-> 200,
                     status |-> "final",
                     bot_message |-> SessaoFinalizada,
                     especialidade_medica |->
                        ficha_de_atendimento_db[chat_input.session_id].especialidade_medica,
                     orientacao_ao_medico |->
                        ficha_de_atendimento_db[chat_input.session_id].orientacao_ao_medico]
             /\ UNCHANGED <<ficha_de_atendimento_db, blocked>>
       ELSE
        LET ficha == [ficha_de_atendimento_db[chat_input.session_id] EXCEPT
                        !.chat_history =
                            append(@, ChatMessage("user", chat_input.user_message))]
        IN  /\ Len(ficha.chat_history) <= MaxHistory
            /\ ficha_de_atendimento_db' =
                   SetItem(ficha_de_atendimento_db, chat_input.session_id, ficha)
            /\ blocked' = blocked \cup
                   { [endpoint |-> "chat_with_gemini",
                      session_id |-> chat_input.session_id,
                      contents |-> conversation_for_gemini(ficha)] }
            /\ response' = response
    /\ UNCHANGED <<lifespan_pc, gemini_model, normalizer>>

\* main.py 296-349; ficha is the record in the store itself
chat_return(handler, outcome) ==
    /\ handler \in blocked
    /\ handler.endpoint = "chat_with_gemini"
    /\ \E result \in { ChatTry(ficha_de_atendimento_db[handler.session_id], outcome) } :
           /\ Len(result.ficha.chat_history) <= MaxHistory
           /\ gemini_calls' = generate_content(handler.contents, outcome)
           /\ ficha_de_atendimento_db' =
                  SetItem(ficha_de_atendimento_db, handler.session_id, result.ficha)
           /\ response' = result.response
    /\ blocked' = blocked \ {handler}
    /\ UNCHANGED <<lifespan_pc, gemini_model, request, normalizer>>

\* main.py 142-187
processar_queixa_call(queixa_data) ==
    /\ lifespan_pc = "yield"
    /\ EventLoopFree
    /\ request' = [endpoint |-> "processar_queixa",
                   session_id |-> queixa_data.session_id,
                   queixa |-> queixa_data.queixa]
    /\ gemini_calls' = <<>>
    /\ IF gemini_model = None
        THEN /\ response' = ServiceUnavailable
             /\ UNCHANGED <<ficha_de_atendimento_db, blocked>>
       ELSE IF queixa_data.session_id \notin DOMAIN ficha_de_atendimento_db
        THEN /\ response' = NotFound
             /\ UNCHANGED <<ficha_de_atendimento_db, blocked>>
       ELSE
        LET ficha == [ficha_de_atendimento_db[queixa_data.session_id] EXCEPT
                        !.queixa_paciente = queixa_data.queixa]
        IN  /\ ficha_de_atendimento_db' =
                   SetItem(ficha_de_atendimento_db, queixa_data.session_id, ficha)
            /\ blocked' = blocked \cup
                   { [endpoint |-> "processar_queixa",
                      session_id |-> queixa_data.session_id,
                      contents |-> full_prompt(ficha, queixa_data.queixa)] }
            /\ response' = response
    /\ UNCHANGED <<lifespan_pc, gemini_model, normalizer>>

\* main.py 187-228
processar_queixa_return(handler, outcome) ==
    /\ handler \in blocked
    /\ handler.endpoint = "processar_queixa"
    /\ \E result \in
            { ProcessarQueixaTry(ficha_de_atendimento_db[handler.session_id], outcome) } :
           /\ gemini_calls' = generate_content(handler.contents, outcome)
           /\ ficha_de_atendimento_db' =
                  SetItem(ficha_de_atendimento_db, handler.session_id, result.ficha)
           /\ response' = result.response
    /\ blocked' = blocked \ {handler}
    /\ UNCHANGED <<lifespan_pc, gemini_model, request, normalizer>>

\* One session, the handlers of the two endpoints step by step.
NextLoop ==
    \/ Startup
    \/ \E dados \in DadosPessoaisIniciais :
            /\ DOMAIN ficha_de_atendimento_db = {}
            /\ EventLoopFree
            /\ iniciar_atendimento(dados)
    \/ \E session_id \in RequestIds :
            EventLoopFree /\ obter_dados_smartwatch(session_id)
    \/ \E session_id \in RequestIds :
            EventLoopFree /\ obter_ficha_completa(session_id)
    \/ \E session_id \in RequestIds, user_message \in UserMessages :
            chat_call([session_id |-> session_id, user_message |-> user_message])
    \/ \E handler \in blocked, outcome \in GeminiOutcomes :
            chat_return(handler, outcome)
    \/ \E session_id \in RequestIds, queixa \in Queixas :
            processar_queixa_call([session_id |-> session_id, queixa |-> queixa])
    \/ \E handler \in blocked, outcome \in GeminiOutcomes :
            processar_queixa_return(handler, outcome)

SpecLoop == Init /\ [][NextLoop]_vars

\* The fence stripping of the two endpoints on its own, applied to the raw
\* texts of up to MaxChunks pieces: blanks, fences, backticks and payload.
Chunks == { <<" ">>, <<"\n">>, OpenFence, CloseFence, <<Backtick>>, <<"x">> }

RECURSIVE Flatten(_)
Flatten(chunks) ==
    IF chunks = <<>> THEN <<>> ELSE Head(chunks) \o Flatten(Tail(chunks))

RawTexts == { Flatten(chunks) : chunks \in UNION { [1..n -> Chunks] : n \in 0..MaxChunks } }

InitNormalizer ==
    /\ lifespan_pc = "start"
    /\ gemini_model = None
    /\ ficha_de_atendimento_db = [k \in {} |-> 0]
    /\ request = [endpoint |-> "none"]
    /\ response = [status_code |-> 0]
    /\ gemini_calls = <<>>
    /\ blocked = {}
    /\ normalizer \in { [pc |-> "raw", gemini_output_text |-> text] : text \in RawTexts }

\* main.py 192-199 and 301-308 on the same raw text
Normalize ==
    /\ normalizer.pc = "raw"
    /\ normalizer' =
            [pc |-> "done",
             gemini_output_text |-> normalizer.gemini_output_text,
             processar_queixa |->
                json_string_processar_queixa(normalizer.gemini_output_text),
             chat_with_gemini |-> json_string(normalizer.gemini_output_text)]
    /\ UNCHANGED <<lifespan_pc, gemini_model, ficha_de_atendimento_db,
                   request, response, gemini_calls, blocked>>

NextNormalizer == Normalize

SpecNormalizer == InitNormalizer /\ [][NextNormalizer]_vars

(***************************************************************************)
(* Properties.                                                             *)
(***************************************************************************)
Endpoints ==
    {"obter_dados_smartwatch", "processar_queixa", "chat_with_gemini", "ficha_completa"}

\* the step is a request addressed to session_id
AddressedTo(session_id) ==
    /\ request'.endpoint \in Endpoints
    /\ request'.session_id = session_id

\* the step is a conversational turn on session_id
TurnOn(session_id) ==
    /\ request'.endpoint = "chat_with_gemini"
    /\ request'.session_id = session_id

NonEmptyStr(v) == v # None /\ v # ""

\* the JSON value a model answer carries, when it carries one
Answered(outcome) ==
    ~outcome.raises /\ json_loads(json_string(outcome.text)).ok

AnswerOf(outcome) == json_loads(json_string(outcome.text)).value

HasStr(value, k) ==
    /\ value.type = "object"
    /\ k \in DOMAIN value.members
    /\ value.members[k].type = "str"

StrOf(value, k) == IF HasStr(value, k) THEN value.members[k].val ELSE None

\* C1: once the conversation_status of a record is final, no later call
\* changes its especialidade_medica or its orientacao_ao_medico, and the
\* status never returns to ongoing.
C1_MonotonicFinality ==
    [][\A s \in DOMAIN ficha_de_atendimento_db :
        ficha_de_atendimento_db[s].conversation_status = "final"
        => /\ ficha_de_atendimento_db'[s].conversation_status = "final"
           /\ ficha_de_atendimento_db'[s].especialidade_medica
                = ficha_de_atendimento_db[s].especialidade_medica
           /\ ficha_de_atendimento_db'[s].orientacao_ao_medico
                = ficha_de_atendimento_db[s].orientacao_ao_medico]_vars

\* C2: in every state of every record, especialidade_medica and
\* orientacao_ao_medico are both empty while the status is ongoing and both
\* non-empty strings once it is final.
C2_NonEmptyIffFinal ==
    \A s \in DOMAIN ficha_de_atendimento_db :
        LET ficha == ficha_de_atendimento_db[s]
        IN  IF ficha.conversation_status = "final"
                THEN /\ NonEmptyStr(ficha.especialidade_medica)
                     /\ NonEmptyStr(ficha.orientacao_ao_medico)
                ELSE /\ ficha.especialidade_medica = ""
                     /\ ficha.orientacao_ao_medico = ""

\* a JSON object with status final that lacks one of the two result fields
FinalWithoutFields(outcome) ==
    /\ Answered(outcome)
    /\ StrOf(AnswerOf(outcome), "status") = "final"
    /\ \/ ~HasStr(AnswerOf(outcome), "especialidade_medica")
       \/ ~HasStr(AnswerOf(outcome), "orientacao_ao_medico")

\* C3: a conversational turn whose model output is a JSON object with status
\* final but without especialidade_medica or orientacao_ao_medico ends with
\* a failure response, and the record is not made final nor its two result
\* fields written.
C3_SchemaRejection ==
    [][\A s \in DOMAIN ficha_de_atendimento_db :
        (/\ TurnOn(s)
         /\ gemini_calls' # <<>>
         /\ FinalWithoutFields(gemini_calls'[1]))
        => /\ response'.status_code = 500
           /\ ficha_de_atendimento_db'[s].conversation_status = "ongoing"
           /\ ficha_de_atendimento_db'[s].especialidade_medica
                = ficha_de_atendimento_db[s].especialidade_medica
           /\ ficha_de_atendimento_db'[s].orientacao_ao_medico
                = ficha_de_atendimento_db[s].orientacao_ao_medico]_vars

\* C4: a conversational turn on a record that is already final calls the
\* external model not at all, leaves the whole store as it is (the user
\* message is not appended) and answers final with the stored
\* especialidade_medica and orientacao_ao_medico; so does every repetition.
C4_ClosedSessionIdempotence ==
    [][\A s \in DOMAIN ficha_de_atendimento_db :
        (/\ TurnOn(s)
         /\ ficha_de_atendimento_db[s].conversation_status = "final")
        => /\ gemini_calls' = <<>>
           /\ ficha_de_atendimento_db' = ficha_de_atendimento_db
           /\ response' =
                [status_code |-> 200,
                 status |-> "final",
                 bot_message |-> SessaoFinalizada,
                 especialidade_medica |->
                    ficha_de_atendimento_db[s].especialidade_medica,
                 orientacao_ao_medico |->
                    ficha_de_atendimento_db[s].orientacao_ao_medico]]_vars

\* a closed session has been asked for another turn, after an earlier request
\* of the same kind: the answer is the closed-session answer
C4_Witness ==
    /\ request.endpoint = "chat_with_gemini"
    /\ request.session_id \in DOMAIN ficha_de_atendimento_db
    /\ ficha_de_atendimento_db[request.session_id].conversation_status = "final"
    /\ gemini_calls = <<>>
    /\ response.status_code = 200
    /\ response.bot_message = SessaoFinalizada
    /\ response.especialidade_medica = "Cardiologia"

\* the conversational shape: status ongoing or final, a bot_message, and
\* the two result fields strings when the status is final
ConversationalShape(value) ==
    /\ value.type = "object"
    /\ StrOf(value, "status") \in {"ongoing", "final"}
    /\ HasStr(value, "bot_message")
    /\ \A k \in {"especialidade_medica", "orientacao_ao_medico"} :
        /\ k \in DOMAIN value.members => value.members[k].type \in {"str", "null"}
        /\ StrOf(value, "status") = "final" => HasStr(value, k)

\* the model call raised, or returned no JSON, or JSON of another shape
BadOutput(outcome) ==
    \/ outcome.raises
    \/ ~json_loads(json_string(outcome.text)).ok
    \/ ~ConversationalShape(AnswerOf(outcome))

\* C5: a conversational turn whose model call raises, or whose output is no
\* JSON or has not the conversational shape, ends with a failure response
\* and leaves conversation_status (ongoing), especialidade_medica and
\* orientacao_ao_medico as they were.
C5_FailedTurnKeepsOutcome ==
    [][\A s \in DOMAIN ficha_de_atendimento_db :
        (/\ TurnOn(s)
         /\ gemini_calls' # <<>>
         /\ BadOutput(gemini_calls'[1]))
        => /\ response'.status_code = 500
           /\ ficha_de_atendimento_db'[s].conversation_status = "ongoing"
           /\ ficha_de_atendimento_db'[s].especialidade_medica
                = ficha_de_atendimento_db[s].especialidade_medica
           /\ ficha_de_atendimento_db'[s].orientacao_ao_medico
                = ficha_de_atendimento_db[s].orientacao_ao_medico]_vars

\* the texts of the user turns of a history, each but the first after a
\* newline, built from the last turn backwards
RECURSIVE UserTurnsByLine(_)
UserTurnsByLine(history) ==
    IF history = <<>> THEN ""
    ELSE
        LET earlier == SubSeq(history, 1, Len(history) - 1)
            last == history[Len(history)]
        IN  IF last.role # "user" THEN UserTurnsByLine(earlier)
            ELSE IF \A i \in 1..Len(earlier) : earlier[i].role # "user"
                THEN last.parts[1].text
            ELSE UserTurnsByLine(earlier) \o "\n" \o last.parts[1].text

\* C6: a conversational turn on an ongoing record either leaves
\* conversation_status, especialidade_medica, orientacao_ao_medico and
\* queixa_paciente all as they were, or - when the validated output has
\* status final - sets in that one step the status to final, the two result
\* fields to those of the output, and queixa_paciente to the texts of all
\* user turns of the session, the current one last, joined by newlines.
C6_FinalTurnSealsRecord ==
    [][\A s \in DOMAIN ficha_de_atendimento_db :
        (/\ TurnOn(s)
         /\ ficha_de_atendimento_db[s].conversation_status = "ongoing")
        => LET before == ficha_de_atendimento_db[s]
               after == ficha_de_atendimento_db'[s]
               output == AnswerOf(gemini_calls'[1])
           IN  /\ gemini_calls' # <<>>
               /\ IF /\ response'.status_code = 200
                     /\ StrOf(output, "status") = "final"
                    THEN /\ after.conversation_status = "final"
                         /\ after.especialidade_medica
                                = StrOf(output, "especialidade_medica")
                         /\ after.orientacao_ao_medico
                                = StrOf(output, "orientacao_ao_medico")
                         /\ after.queixa_paciente =
                                UserTurnsByLine(
                                    Append(before.chat_history,
                                           [role |-> "user",
                                            parts |-> <<[text |-> request'.user_message]>>]))
                    ELSE /\ after.conversation_status = "ongoing"
                         /\ after.especialidade_medica = before.especialidade_medica
                         /\ after.orientacao_ao_medico = before.orientacao_ao_medico
                         /\ after.queixa_paciente = before.queixa_paciente]_vars

\* a session was sealed by a turn that followed a failed turn: its complaint
\* is made of both user messages
C6_Witness ==
    /\ request.endpoint = "chat_with_gemini"
    /\ request.session_id \in DOMAIN ficha_de_atendimento_db
    /\ gemini_calls # <<>>
    /\ response.status_code = 200
    /\ response.status = "final"
    /\ LET ficha == ficha_de_atendimento_db[request.session_id]
       IN  /\ ficha.conversation_status = "final"
           /\ Len(ficha.chat_history) = 3
           /\ ficha.chat_history[1].role = "user"
           /\ ficha.chat_history[2].role = "user"
           /\ ficha.chat_history[1] # ficha.chat_history[2]
           /\ ficha.queixa_paciente = "ha dois dias\ndor de cabeca forte"
           /\ ficha.especialidade_medica = "Neurologia"

\* C7: a request addressed to one session, whatever its outcome, and the
\* start of a new session leave especialidade_medica, orientacao_ao_medico,
\* chat_history and conversation_status of every other session unchanged.
C7_SessionIsolation ==
    [][\A b \in DOMAIN ficha_de_atendimento_db :
        ~AddressedTo(b)
        => /\ b \in DOMAIN ficha_de_atendimento_db'
           /\ ficha_de_atendimento_db'[b].especialidade_medica
                = ficha_de_atendimento_db[b].especialidade_medica
           /\ ficha_de_atendimento_db'[b].orientacao_ao_medico
                = ficha_de_atendimento_db[b].orientacao_ao_medico
           /\ ficha_de_atendimento_db'[b].chat_history
                = ficha_de_atendimento_db[b].chat_history
           /\ ficha_de_atendimento_db'[b].conversation_status
                = ficha_de_atendimento_db[b].conversation_status]_vars

\* one session has just been sealed by a turn while another one, with a
\* history of its own, is still ongoing
C7_Witness ==
    /\ request.endpoint = "chat_with_gemini"
    /\ gemini_calls # <<>>
    /\ \E a, b \in DOMAIN ficha_de_atendimento_db :
        /\ a # b
        /\ request.session_id = a
        /\ ficha_de_atendimento_db[a].conversation_status = "final"
        /\ ficha_de_atendimento_db[b].conversation_status = "ongoing"
        /\ Len(ficha_de_atendimento_db[b].chat_history) = 2
        /\ ficha_de_atendimento_db[b].especialidade_medica = ""

\* C8: the four requests that name a session, given a session_id that is
\* not a key of the store, answer 404, call the external model not at all,
\* create no record and leave every record as it is.
C8_UnknownSession ==
    [][(/\ request'.endpoint \in Endpoints
        /\ request'.session_id \notin DOMAIN ficha_de_atendimento_db)
        => /\ response'.status_code = 404
           /\ gemini_calls' = <<>>
           /\ ficha_de_atendimento_db' = ficha_de_atendimento_db]_vars

\* a turn was asked for on a session that does not exist while another
\* session with a history exists
C8_Witness ==
    /\ request.endpoint = "chat_with_gemini"
    /\ request.session_id \notin DOMAIN ficha_de_atendimento_db
    /\ response.status_code = 404
    /\ \E s \in DOMAIN ficha_de_atendimento_db :
        ficha_de_atendimento_db[s].chat_history # <<>>

\* C9: starting a session adds one record, under a session_id that was no
\* key of the store, with empty dados_fisiologicos, queixa_paciente,
\* especialidade_medica, orientacao_ao_medico and chat_history and with
\* status ongoing; every record that existed stays as it was.
C9_StartSessionIsFresh ==
    [][request'.endpoint = "iniciar_atendimento"
        => LET session_id == response'.session_id
           IN  /\ session_id \notin DOMAIN ficha_de_atendimento_db
               /\ DOMAIN ficha_de_atendimento_db'
                    = DOMAIN ficha_de_atendimento_db \cup {session_id}
               /\ \A s \in DOMAIN ficha_de_atendimento_db :
                    ficha_de_atendimento_db'[s] = ficha_de_atendimento_db[s]
               /\ ficha_de_atendimento_db'[session_id] =
                    [session_id |-> session_id,
                     nome_completo |-> request'.dados.nome_completo,
                     endereco |-> request'.dados.endereco,
                     idade |-> request'.dados.idade,
                     dados_fisiologicos |-> EmptyDict,
                     queixa_paciente |-> "",
                     especialidade_medica |-> "",
                     orientacao_ao_medico |-> "",
                     chat_history |-> <<>>,
                     conversation_status |-> "ongoing"]]_vars

\* a session has just been started next to a session that is already sealed
C9_Witness ==
    /\ request.endpoint = "iniciar_atendimento"
    /\ response.session_id \in DOMAIN ficha_de_atendimento_db
    /\ ficha_de_atendimento_db[response.session_id].chat_history = <<>>
    /\ \E s \in DOMAIN ficha_de_atendimento_db :
        /\ s # response.session_id
        /\ ficha_de_atendimento_db[s].conversation_status = "final"

\* C10: fetching the wearable data of an existing session changes nothing of
\* its record but dados_fisiologicos, which become the readings returned,
\* and nothing of the store when the record already holds readings.
C10_WearableFetchIdempotent ==
    [][\A s \in DOMAIN ficha_de_atendimento_db :
        (/\ request'.endpoint = "obter_dados_smartwatch"
         /\ request'.session_id = s)
        => /\ response'.status_code = 200
           /\ gemini_calls' = <<>>
           /\ ficha_de_atendimento_db' =
                [ficha_de_atendimento_db EXCEPT
                    ![s].dados_fisiologicos = response'.dados_fisiologicos]
           /\ DOMAIN response'.dados_fisiologicos # {}
           /\ DOMAIN ficha_de_atendimento_db[s].dados_fisiologicos # {}
                => ficha_de_atendimento_db' = ficha_de_atendimento_db]_vars

\* the wearable data of a sealed session that already held readings were
\* fetched again
C10_Witness ==
    /\ request.endpoint = "obter_dados_smartwatch"
    /\ request.session_id \in DOMAIN ficha_de_atendimento_db
    /\ response.status_code = 200
    /\ LET ficha == ficha_de_atendimento_db[request.session_id]
       IN  /\ ficha.conversation_status = "final"
           /\ ficha.chat_history # <<>>
           /\ ficha.dados_fisiologicos = response.dados_fisiologicos
           /\ ficha.dados_fisiologicos.nivel_estresse = "Baixo"

(***************************************************************************)
(* C11  Response normalizer: for every raw model text the candidate JSON   *)
(* text is the raw text with the surrounding whitespace removed, except    *)
(* that, when the trimmed text starts with the opening fence tagged json   *)
(* and ends with the closing fence, both fences and the whitespace just    *)
(* inside them are removed; the single-shot path and the conversational    *)
(* path give the same candidate.                                           *)
(***************************************************************************)
C11_Blank == {" ", "\n", "\t"}

C11_Trimmed(text) ==
    LET solid == { i \in 1..Len(text) : text[i] \notin C11_Blank }
    IN  IF solid = {}
            THEN <<>>
            ELSE SubSeq(text,
                        CHOOSE i \in solid : \A j \in solid : i <= j,
                        CHOOSE i \in solid : \A j \in solid : i >= j)

C11_Candidate(text) ==
    LET trimmed == C11_Trimmed(text)
        n == Len(trimmed)
    IN  IF /\ n >= 7 /\ SubSeq(trimmed, 1, 7) = OpenFence
           /\ SubSeq(trimmed, n - 2, n) = CloseFence
            THEN C11_Trimmed(SubSeq(trimmed, 8, n - 3))
            ELSE trimmed

C11_Normalizer ==
    normalizer.pc = "done" =>
        /\ normalizer.chat_with_gemini = C11_Candidate(normalizer.gemini_output_text)
        /\ normalizer.processar_queixa = C11_Candidate(normalizer.gemini_output_text)

\* a fenced payload on lines of its own has been normalized to the payload
C11_Witness ==
    /\ normalizer.pc = "done"
    /\ normalizer.gemini_output_text = OpenFence \o <<"\n", "x", "\n">> \o CloseFence
    /\ normalizer.chat_with_gemini = <<"x">>
    /\ normalizer.processar_queixa = <<"x">>

(***************************************************************************)
(* C12  No partial state on failure: when a single-shot triage or a        *)
(* conversational turn ends with a failure response, the session record    *)
(* after the call equals the record before it in every field, except for   *)
(* the user turn a conversational turn has appended to chat_history; a     *)
(* failed single-shot triage leaves queixa_paciente as it was.             *)
(***************************************************************************)
C12_Failed == response'.status_code # 200

C12_NoPartialStateOnFailure ==
    [][\A session_id \in DOMAIN ficha_de_atendimento_db :
          /\ ( /\ request'.endpoint = "processar_queixa"
               /\ request'.session_id = session_id
               /\ C12_Failed )
             => ficha_de_atendimento_db'[session_id] = ficha_de_atendimento_db[session_id]
          /\ ( /\ request'.endpoint = "chat_with_gemini"
               /\ request'.session_id = session_id
               /\ C12_Failed )
             => /\ [ficha_de_atendimento_db'[session_id] EXCEPT
                        !.chat_history = ficha_de_atendimento_db[session_id].chat_history]
                    = ficha_de_atendimento_db[session_id]
                /\ ficha_de_atendimento_db'[session_id].chat_history
                    = Append(ficha_de_atendimento_db[session_id].chat_history,
                             [role |-> "user",
                              parts |-> <<[text |-> request'.user_message]>>])
      ]_vars

(***************************************************************************)
(* C13  In a conversational turn on an ongoing session the user message is *)
(* appended to chat_history, as a turn of the user, before the external    *)
(* model is called, and it stays when the call or the validation fails:    *)
(* after a failed turn chat_history is its previous value followed by that *)
(* one user turn, and no model turn.                                       *)
(***************************************************************************)
C13_UserTurn(user_message) == [role |-> "user", parts |-> <<[text |-> user_message]>>]

\* the step starts a conversational turn on session_id, which is ongoing
C13_TurnStarts(session_id) ==
    /\ blocked = {}
    /\ request'.endpoint = "chat_with_gemini"
    /\ request'.session_id = session_id
    /\ gemini_model # None
    /\ ficha_de_atendimento_db[session_id].conversation_status = "ongoing"

\* the step is the return of the external model into the turn on session_id
C13_TurnEnds(session_id) ==
    \E handler \in blocked :
        /\ handler.endpoint = "chat_with_gemini"
        /\ handler.session_id = session_id
        /\ handler \notin blocked'

C13_UserTurnKept ==
    [][\A session_id \in DOMAIN ficha_de_atendimento_db :
          LET old == ficha_de_atendimento_db[session_id].chat_history
              new == ficha_de_atendimento_db'[session_id].chat_history
          IN  /\ C13_TurnStarts(session_id)
                    => /\ new = Append(old, C13_UserTurn(request'.user_message))
                       /\ gemini_calls' = <<>>
                       /\ \E handler \in blocked' :
                            /\ handler.session_id = session_id
                            /\ handler.contents[Len(handler.contents)]
                                = C13_UserTurn(request'.user_message)
              /\ (C13_TurnEnds(session_id) /\ response'.status_code # 200)
                    => /\ new = old
                       /\ old # <<>>
                       /\ old[Len(old)] = C13_UserTurn(request.user_message)
      ]_vars

\* a first turn has failed and has left its user turn behind
C13_Witness ==
    /\ blocked = {}
    /\ request.endpoint = "chat_with_gemini"
    /\ response.status_code = 500
    /\ request.session_id \in DOMAIN ficha_de_atendimento_db
    /\ ficha_de_atendimento_db[request.session_id].chat_history
        = <<C13_UserTurn(request.user_message)>>

(***************************************************************************)
(* C14  chat_history is append-only: in every step of every sequence of    *)
(* operations the chat_history a session had is a prefix of the one it has *)
(* afterwards; its length never decreases and no turn in it is removed,    *)
(* moved or edited.                                                        *)
(***************************************************************************)
C14_IsPrefix(old, new) ==
    /\ Len(old) <= Len(new)
    /\ \A i \in 1..Len(old) : new[i] = old[i]

C14_AppendOnly ==
    [][\A session_id \in DOMAIN ficha_de_atendimento_db :
          /\ session_id \in DOMAIN ficha_de_atendimento_db'
          /\ C14_IsPrefix(ficha_de_atendimento_db[session_id].chat_history,
                          ficha_de_atendimento_db'[session_id].chat_history)
      ]_vars

\* a history that has grown turn by turn, over a failed and an answered turn
C14_Witness ==
    \E session_id \in DOMAIN ficha_de_atendimento_db :
        LET chat_history == ficha_de_atendimento_db[session_id].chat_history
        IN  /\ Len(chat_history) = 3
            /\ chat_history[1].role = "user"
            /\ chat_history[2].role = "user"
            /\ chat_history[3].role = "model"

(***************************************************************************)
(* C15  In every conversational turn whose model output validates, the     *)
(* bot_message of the output is appended to chat_history as a turn of the  *)
(* model, whether the status is ongoing or final; when it is ongoing the   *)
(* response is {status: ongoing, bot_message} and conversation_status,     *)
(* especialidade_medica, orientacao_ao_medico and queixa_paciente stay as  *)
(* they were.                                                              *)
(***************************************************************************)
\* the step is a turn on session_id that called the model and was answered
C15_ValidatedTurn(session_id) ==
    /\ TurnOn(session_id)
    /\ gemini_calls' # <<>>
    /\ response'.status_code = 200

C15_ModelTurnAppended ==
    [][\A session_id \in DOMAIN ficha_de_atendimento_db :
          C15_ValidatedTurn(session_id) =>
            LET old == ficha_de_atendimento_db[session_id]
                new == ficha_de_atendimento_db'[session_id]
                output == AnswerOf(gemini_calls'[1])
                bot_message == StrOf(output, "bot_message")
            IN  /\ Answered(gemini_calls'[1])
                /\ StrOf(output, "status") \in {"ongoing", "final"}
                /\ bot_message # None
                /\ new.chat_history =
                        old.chat_history
                        \o <<[role |-> "user",
                              parts |-> <<[text |-> request'.user_message]>>],
                             [role |-> "model",
                              parts |-> <<[text |-> bot_message]>>]>>
                /\ StrOf(output, "status") = "ongoing" =>
                        /\ response' = [status_code |-> 200,
                                        status |-> "ongoing",
                                        bot_message |-> bot_message]
                        /\ new.conversation_status = old.conversation_status
                        /\ new.especialidade_medica = old.especialidade_medica
                        /\ new.orientacao_ao_medico = old.orientacao_ao_medico
                        /\ new.queixa_paciente = old.queixa_paciente
      ]_vars

\* an ongoing answer has come after a single-shot triage had filled the record
C15_Witness ==
    /\ request.endpoint = "chat_with_gemini"
    /\ gemini_calls # <<>>
    /\ response.status_code = 200
    /\ response.status = "ongoing"
    /\ request.session_id \in DOMAIN ficha_de_atendimento_db
    /\ LET ficha == ficha_de_atendimento_db[request.session_id]
       IN  /\ ficha.chat_history[Len(ficha.chat_history)]
                = [role |-> "model", parts |-> <<[text |-> response.bot_message]>>]
           /\ ficha.especialidade_medica = "Neurologia"
           /\ ficha.queixa_paciente = "febre"

(***************************************************************************)
(* C16  Unsynchronized access: a request suspends at the call of the       *)
(* external model and no lock protects a session record, so that, while a  *)
(* conversational turn on a session waits for the external model, the      *)
(* service takes up another conversational turn on the same session, which *)
(* passes the closed-session check and appends its user turn: two turns    *)
(* are then under way on the session and race on the order of their        *)
(* appends and on the final write.                                         *)
(***************************************************************************)
\* a second turn on session_id gets as far as the call of the external model
C16_SecondTurnStarts(session_id) ==
    \E user_message \in UserMessages :
        /\ chat_call([session_id |-> session_id, user_message |-> user_message])
        /\ blocked' # blocked

C16_TurnsInterleave ==
    \A handler \in blocked :
        ( /\ handler.endpoint = "chat_with_gemini"
          /\ Len(ficha_de_atendimento_db[handler.session_id].chat_history) < MaxHistory )
            => ENABLED C16_SecondTurnStarts(handler.session_id)

(***************************************************************************)
(* C17  What a conversational turn sends to the external model is the      *)
(* system-instruction message, under the role model, followed by the whole *)
(* chat_history of the session in its stored order; the last message sent  *)
(* is the user message of the current request.                             *)
(***************************************************************************)
C17_PromptThenHistory ==
    [][\A session_id \in DOMAIN ficha_de_atendimento_db :
          (TurnOn(session_id) /\ gemini_calls' # <<>>) =>
            LET contents == gemini_calls'[1].contents
                before == ficha_de_atendimento_db[session_id].chat_history
                user_turn == [role |-> "user",
                              parts |-> <<[text |-> request'.user_message]>>]
            IN  /\ Len(contents) = Len(before) + 2
                /\ contents[1].role = "model"
                /\ contents[1].parts
                        = <<[text |-> gemini_system_prompt(
                                        ficha_de_atendimento_db[session_id])]>>
                /\ \A i \in 1..Len(before) : contents[i + 1] = before[i]
                /\ contents[Len(contents)] = user_turn
                /\ SubSeq(ficha_de_atendimento_db'[session_id].chat_history,
                          1, Len(before) + 1)
                        = Tail(contents)
      ]_vars

\* the second turn of a session has sent the prompt, the first user turn, the
\* answer of the model and the new user message
C17_Witness ==
    /\ request.endpoint = "chat_with_gemini"
    /\ gemini_calls # <<>>
    /\ Len(gemini_calls[1].contents) = 4
    /\ gemini_calls[1].contents[2].role = "user"
    /\ gemini_calls[1].contents[3].role = "model"
    /\ gemini_calls[1].contents[4]
            = [role |-> "user", parts |-> <<[text |-> request.user_message]>>]

(***************************************************************************)
(* C18  A single-shot triage on an existing session makes exactly one call *)
(* to the external model, neither reads nor modifies chat_history, and on  *)
(* a validated result sets especialidade_medica and orientacao_ao_medico   *)
(* of the record to the two strings of the result, so that the record      *)
(* holds the sealed outcome, without an ongoing answer in between.         *)
(***************************************************************************)
\* the step is a single-shot triage on session_id
C18_SingleShotOn(session_id) ==
    /\ request'.endpoint = "processar_queixa"
    /\ request'.session_id = session_id
    /\ gemini_model # None

\* one call, whose prompt is the same whatever the chat_history holds, and the
\* chat_history left alone; the two strings of a validated result stored
C18_OneCallSetsResult(session_id) ==
    LET old == ficha_de_atendimento_db[session_id]
        new == ficha_de_atendimento_db'[session_id]
        output == AnswerOf(gemini_calls'[1])
    IN  /\ Len(gemini_calls') = 1
        /\ gemini_calls'[1].contents
                = full_prompt([old EXCEPT !.chat_history = <<>>], request'.queixa)
        /\ new.chat_history = old.chat_history
        /\ response'.status_code = 200 =>
                /\ Answered(gemini_calls'[1])
                /\ HasStr(output, "especialidade_medica")
                /\ HasStr(output, "orientacao_ao_medico")
                /\ new.especialidade_medica = StrOf(output, "especialidade_medica")
                /\ new.orientacao_ao_medico = StrOf(output, "orientacao_ao_medico")
                /\ "status" \notin DOMAIN response'

\* the outcome of the record is sealed
C18_Sealed(session_id) ==
    ficha_de_atendimento_db'[session_id].conversation_status = "final"

C18_SingleShotSealsOutcome ==
    [][\A session_id \in DOMAIN ficha_de_atendimento_db :
          C18_SingleShotOn(session_id) =>
            /\ C18_OneCallSetsResult(session_id)
            /\ response'.status_code = 200 => C18_Sealed(session_id)
      ]_vars

(***************************************************************************)
(* C19  No retries: a single-shot or conversational request calls the      *)
(* external model at most once; when that one call raises, or returns an   *)
(* output the request does not accept (no JSON, or JSON that the schema of *)
(* the endpoint rejects), the request ends with a failure response and has *)
(* made no further call.                                                   *)
(***************************************************************************)
C19_Rejected(endpoint, call) ==
    \/ call.raises
    \/ ~json_loads(json_string(call.text)).ok
    \/ /\ endpoint = "chat_with_gemini"
       /\ ~ConversationalGeminiResponse(json_loads(json_string(call.text)).value).ok
    \/ /\ endpoint = "processar_queixa"
       /\ ~GeminiResponse(json_loads(json_string(call.text)).value).ok

C19_NoRetries ==
    [][request'.endpoint \in {"processar_queixa", "chat_with_gemini"} =>
          /\ Len(gemini_calls') <= 1
          /\ ( /\ gemini_calls' # <<>>
               /\ C19_Rejected(request'.endpoint, gemini_calls'[1]) )
                => response'.status_code = 500
      ]_vars

\* a request whose only call raised has ended with the failure response
C19_Witness ==
    /\ request.endpoint \in {"processar_queixa", "chat_with_gemini"}
    /\ Len(gemini_calls) = 1
    /\ gemini_calls[1].raises
    /\ response.status_code = 500

(***************************************************************************)
(* C20  In every reachable state every prefix of the chat_history of a     *)
(* session holds at least as many turns of the user as of the model (a     *)
(* history that is not empty starts with a user turn), and every model     *)
(* turn comes right after a user turn.  Two user turns follow each other   *)
(* exactly where a turn failed: a turn leaves a user turn at the end of    *)
(* the history, for the next user turn to follow it, if and only if it     *)
(* ended with a failure response.                                          *)
(***************************************************************************)
C20_Turns(chat_history, n, role) ==
    Cardinality({ i \in 1..n : chat_history[i].role = role })

C20_Balanced(chat_history) ==
    /\ \A n \in 0..Len(chat_history) :
            C20_Turns(chat_history, n, "user") >= C20_Turns(chat_history, n, "model")
    /\ \A i \in 1..Len(chat_history) :
            chat_history[i].role = "model"
                => i > 1 /\ chat_history[i - 1].role = "user"

C20_UserTurnsLead ==
    [][\A session_id \in DOMAIN ficha_de_atendimento_db' :
          LET chat_history == ficha_de_atendimento_db'[session_id].chat_history
          IN  /\ C20_Balanced(chat_history)
              /\ ( /\ session_id \in DOMAIN ficha_de_atendimento_db
                   /\ TurnOn(session_id)
                   /\ gemini_calls' # <<>> )
                    => /\ chat_history # <<>>
                       /\ chat_history[Len(chat_history)].role = "user"
                            <=> response'.status_code # 200
      ]_vars

\* two turns failed one after the other and left two user turns
C20_Witness ==
    /\ request.endpoint = "chat_with_gemini"
    /\ response.status_code = 500
    /\ request.session_id \in DOMAIN ficha_de_atendimento_db
    /\ LET chat_history == ficha_de_atendimento_db[request.session_id].chat_history
       IN  /\ Len(chat_history) = 2
           /\ chat_history[1].role = "user"
           /\ chat_history[2].role = "user"

====
